---- MODULE Spec2Model ----
(***************************************************************************)
(* Model of the tagmap crate (src/src/lib.rs): the Tag mini-grammar        *)
(* (FromStr / Display) and the range-addressed TagMap operations           *)
(* get / set / delete.                                                     *)
(*                                                                         *)
(* Encoding of usize.  Indices and lengths are 64-bit unsigned integers.   *)
(* A model integer x stands for the residue x mod 2^64, written with the   *)
(* representative closest to zero: a negative x stands for 2^64 + x.       *)
(* Equality of residues is equality of representatives for all the values  *)
(* the bounded model produces.  A subtraction a - b with a < b is an       *)
(* overflow: it panics when the build has overflow checks (debug) and      *)
(* wraps otherwise (release); the variable overflow_checks is the build.   *)
(***************************************************************************)
EXTENDS Integers, Sequences, FiniteSets, TLC

(* ------------------------------ bounds -------------------------------- *)
MaxIdx == 2      \* largest range bound drawn for a Tag
MaxLen == 2      \* longest sequence value passed to set
MaxOps == 2      \* number of TagMap calls in one run
MaxText == 6     \* longest tag text handed to the parser

(* ------------------------------ values -------------------------------- *)
\* eva_common Value, seen as Unit | scalar | Seq(Vec<Value>)
Unit == [k |-> "Unit", n |-> 0, s |-> <<>>]
IntV(i) == [k |-> "Int", n |-> i, s |-> <<>>]
SeqV(q) == [k |-> "Seq", n |-> 0, s |-> q]

\* Option<T>
None == [some |-> FALSE, v |-> 0]
Some(x) == [some |-> TRUE, v |-> x]
unwrap_or_default(o) == IF o.some THEN o.v ELSE 0

\* Option<Value> as held by the BTreeMap for one key
Absent == [some |-> FALSE, v |-> Unit]
Present(val) == [some |-> TRUE, v |-> val]

(* --------------------------- Vec operations --------------------------- *)
\* Vec::resize(new_len, fill): truncate or pad
resize(q, n, fill) ==
    IF Len(q) >= n THEN SubSeq(q, 1, n)
    ELSE q \o [i \in 1..(n - Len(q)) |-> fill]

\* slice::get(i) with the map_or(Value::Unit, Clone::clone) of the callers
get_or_unit(q, i) == IF i < Len(q) THEN q[i + 1] ELSE Unit

\* Vec::split_off(at): the part that stays and the part returned
split_keep(q, at) == SubSeq(q, 1, at)
split_off(q, at) == SubSeq(q, at + 1, Len(q))

(* -------------------------------- Tag --------------------------------- *)
Range(from, to) == [from |-> from, to |-> to]
RangeDefault == Range(None, None)
Tag(id, range) == [id |-> id, range |-> range]
Tag0(id) == Tag(id, RangeDefault)

has_range(tag) == tag.range.from.some \/ tag.range.to.some

\* to - from.unwrap_or_default() underflows
range_len_overflows(tag) ==
    tag.range.to.some /\ tag.range.to.v < unwrap_or_default(tag.range.from)

\* the value of range_len when it returns (wrapped on overflow)
range_len(tag) ==
    IF tag.range.to.some
    THEN Some(tag.range.to.v - unwrap_or_default(tag.range.from) + 1)
    ELSE None

(* ------------------------------- texts -------------------------------- *)
\* a &str is the sequence of its characters
Chars == {"a", "[", "]", "-", "+", "0", "1"}
Digits == <<"0", "1", "2", "3", "4", "5", "6", "7", "8", "9">>
IsDigit(c) == \E d \in 1..10 : Digits[d] = c
DigitValue(c) == (CHOOSE d \in 1..10 : Digits[d] = c) - 1

\* str::find / str::rfind of one character: the 0-based position
find(s, c) ==
    IF \E i \in 1..Len(s) : s[i] = c
    THEN Some((CHOOSE i \in 1..Len(s) : s[i] = c /\ \A j \in 1..(i - 1) : s[j] # c) - 1)
    ELSE None
rfind(s, c) ==
    IF \E i \in 1..Len(s) : s[i] = c
    THEN Some((CHOOSE i \in 1..Len(s) : s[i] = c /\ \A j \in (i + 1)..Len(s) : s[j] # c) - 1)
    ELSE None

\* &s[..pos] and &s[pos..]
slice_to(s, pos) == SubSeq(s, 1, pos)
slice_from(s, pos) == SubSeq(s, pos + 1, Len(s))

\* str::parse::<usize>: an optional '+', then one or more decimal digits
RECURSIVE digits_value(_)
digits_value(s) ==
    IF Len(s) = 0 THEN 0
    ELSE 10 * digits_value(SubSeq(s, 1, Len(s) - 1)) + DigitValue(s[Len(s)])
parse_usize(s) ==
    LET body == IF Len(s) > 1 /\ s[1] = "+" THEN Tail(s) ELSE s
    IN  IF Len(body) > 0 /\ \A i \in 1..Len(body) : IsDigit(body[i])
        THEN [ok |-> TRUE, v |-> digits_value(body)]
        ELSE [ok |-> FALSE, v |-> 0]

\* the Display of a usize
RECURSIVE fmt_usize(_)
fmt_usize(n) ==
    IF n < 10 THEN <<Digits[n + 1]>>
    ELSE fmt_usize(n \div 10) \o <<Digits[(n % 10) + 1]>>

(* ---------------------- parse_range and from_str ---------------------- *)
\* what the parser returns: a Tag, or an error.  "ParseInt" is the
\* ParseIntError that `?` hands to eva_common's conversion into Error.
Parsed(t) == [kind |-> "Ok", tag |-> t]
ParseErr(kind) == [kind |-> kind, tag |-> Tag0(<<>>)]

parse_bound(s) == IF Len(s) = 0 THEN None ELSE Some(parse_usize(s).v)
bound_ok(s) == Len(s) = 0 \/ parse_usize(s).ok

\* parse_range without the from > to test
parse_range_kind_unordered(s) ==
    LET pos == find(s, "-") IN
    IF pos.some
    THEN IF ~bound_ok(slice_to(s, pos.v)) \/ ~bound_ok(slice_from(s, pos.v + 1))
         THEN "ParseInt" ELSE "Ok"
    ELSE IF parse_usize(s).ok THEN "Ok" ELSE "ParseInt"

\* the result kind of parse_range and the Range it returns when Ok
parse_range_kind(s) ==
    LET pos == find(s, "-") IN
    IF pos.some
    THEN LET f == slice_to(s, pos.v)
             t == slice_from(s, pos.v + 1)
         IN  IF ~bound_ok(f) \/ ~bound_ok(t) THEN "ParseInt"
             ELSE IF parse_bound(f).some /\ parse_bound(t).some
                     /\ parse_bound(f).v > parse_bound(t).v
                  THEN "InvalidParams"
                  ELSE "Ok"
    ELSE IF parse_usize(s).ok THEN "Ok" ELSE "ParseInt"
parse_range(s) ==
    LET pos == find(s, "-") IN
    IF pos.some
    THEN Range(parse_bound(slice_to(s, pos.v)), parse_bound(slice_from(s, pos.v + 1)))
    ELSE Range(Some(parse_usize(s).v), Some(parse_usize(s).v))

from_str(s) ==
    IF Len(s) > 0 /\ s[Len(s)] = "]"
    THEN LET x == SubSeq(s, 1, Len(s) - 1)
             pos == rfind(x, "[")
         IN  IF pos.some
             THEN LET inner == slice_from(x, pos.v + 1)
                  IN  IF parse_range_kind(inner) = "Ok"
                      THEN Parsed(Tag(slice_to(x, pos.v), parse_range(inner)))
                      ELSE ParseErr(parse_range_kind(inner))
             ELSE ParseErr("InvalidParams")
    ELSE Parsed(Tag0(s))

(* --------------------------- Display for Tag -------------------------- *)
\* the text written when fmt returns; range_len inside it can overflow
display_interior(tag) ==
    IF range_len(tag).some /\ range_len(tag).v = 1
    THEN fmt_usize(unwrap_or_default(tag.range.from))
    ELSE (IF tag.range.from.some THEN fmt_usize(tag.range.from.v) ELSE <<>>)
         \o <<"-">>
         \o (IF tag.range.to.some THEN fmt_usize(tag.range.to.v) ELSE <<>>)

\* Display that never takes the single-index form
display_always_dashed(tag) ==
    IF has_range(tag)
    THEN tag.id \o <<"[">>
         \o (IF tag.range.from.some THEN fmt_usize(tag.range.from.v) ELSE <<>>)
         \o <<"-">>
         \o (IF tag.range.to.some THEN fmt_usize(tag.range.to.v) ELSE <<>>)
         \o <<"]">>
    ELSE tag.id

display(tag) ==
    IF has_range(tag)
    THEN tag.id \o <<"[">> \o display_interior(tag) \o <<"]">>
    ELSE tag.id

(* ------------------------------ results ------------------------------- *)
Ok(val) == [kind |-> "Ok", val |-> val]
Err(kind) == [kind |-> kind, val |-> Unit]
Panic == [kind |-> "Panic", val |-> Unit]

Outcome(m, r) == [tags |-> m, res |-> r]

\* delete that forgets the range check and removes the whole entry
delete_ignoring_range(m, tag) ==
    Outcome([m EXCEPT ![tag.id] = Absent], Ok(Unit))

\* delete that reports a missing entry
delete_missing_is_error(m, tag) ==
    IF has_range(tag) THEN Outcome(m, Err("InvalidParams"))
    ELSE IF m[tag.id].some
         THEN Outcome([m EXCEPT ![tag.id] = Absent], Ok(Unit))
         ELSE Outcome(m, Err("NotFound"))

(* --------------------------- TagMap::delete --------------------------- *)
delete(m, tag) ==
    IF has_range(tag)
    THEN Outcome(m, Err("InvalidParams"))
    ELSE Outcome([m EXCEPT ![tag.id] = Absent], Ok(Unit))

(* ---------------------------- TagMap::get ----------------------------- *)
\* the read clamped to the stored length instead of padded
get_slice_clamped(q, tag, checks) ==
    LET from == unwrap_or_default(tag.range.from)
        upto == IF tag.range.to.some THEN tag.range.to.v + 1 ELSE Len(q)
        to == IF upto > Len(q) THEN Len(q) ELSE upto
    IN  IF to < from THEN Panic
        ELSE Ok(SeqV([i \in 1..(to - from) |-> get_or_unit(q, from + i - 1)]))

\* lines 224-230: the multi-element / open-ended read
get_slice(q, tag, checks) ==
    LET from == unwrap_or_default(tag.range.from)
        to == IF tag.range.to.some THEN tag.range.to.v + 1 ELSE Len(q)
        cap == to - from + 1
    IN  IF to < from /\ checks THEN Panic            \* subtract with overflow
        ELSE IF cap < 0 THEN Panic                   \* capacity overflow
        ELSE Ok(SeqV([i \in 1..(IF to > from THEN to - from ELSE 0)
                          |-> get_or_unit(q, from + i - 1)]))

get(m, tag, checks) ==
    IF m[tag.id].some
    THEN LET val == m[tag.id].v IN
         IF has_range(tag)
         THEN IF val.k = "Seq"
              THEN IF range_len_overflows(tag) /\ checks THEN Panic
                   ELSE IF range_len(tag).some /\ range_len(tag).v = 1
                        THEN Ok(get_or_unit(val.s, unwrap_or_default(tag.range.from)))
                        ELSE get_slice(val.s, tag, checks)
              ELSE Err("InvalidData")
         ELSE Ok(val)
    ELSE Err("NotFound")

\* a read that pads the stored sequence up to the index it was asked for
get_call_padding(m, tag, checks) ==
    Outcome(IF m[tag.id].some /\ m[tag.id].v.k = "Seq" /\ tag.range.to.some
               /\ Len(m[tag.id].v.s) < tag.range.to.v + 1
            THEN [m EXCEPT ![tag.id] =
                     Present(SeqV(resize(m[tag.id].v.s, tag.range.to.v + 1, Unit)))]
            ELSE m,
            get(m, tag, checks))

\* get as a method on &mut self: the map it leaves and what it returns
get_call(m, tag, checks) == Outcome(m, get(m, tag, checks))

(* ---------------------------- TagMap::set ----------------------------- *)
\* the single-element write that always resizes to idx + 1
set_single_truncating(q, tag, value) ==
    LET idx == unwrap_or_default(tag.range.from)
    IN  [resize(q, idx + 1, Unit) EXCEPT ![idx + 1] = value]

\* lines 249-253: replace a single element
set_single(q, tag, value) ==
    LET idx == unwrap_or_default(tag.range.from)
        grown == IF Len(q) < idx + 1 THEN resize(q, idx + 1, Unit) ELSE q
    IN  [grown EXCEPT ![idx + 1] = value]

\* the splice with the tail cut at `to` instead of `to + 1`
set_part_tail_at_to(q, tag, s) ==
    LET last_idx == unwrap_or_default(tag.range.to)
        has_tail == ~(last_idx > Len(q))
        tail == IF has_tail THEN split_off(q, last_idx) ELSE <<>>
        kept == IF has_tail THEN split_keep(q, last_idx) ELSE q
        first_idx == unwrap_or_default(tag.range.from)
    IN  resize(kept, first_idx, Unit) \o s \o tail

\* lines 259-270: set array part
set_part(q, tag, s) ==
    LET last_idx == unwrap_or_default(tag.range.to) + 1
        has_tail == ~(last_idx > Len(q))
        tail == IF has_tail THEN split_off(q, last_idx) ELSE <<>>
        kept == IF has_tail THEN split_keep(q, last_idx) ELSE q
        first_idx == unwrap_or_default(tag.range.from)
    IN  resize(kept, first_idx, Unit) \o s \o tail

\* the open-ended write that pads but never truncates
set_from_keeping(q, tag, s) ==
    (IF Len(q) < unwrap_or_default(tag.range.from)
     THEN resize(q, unwrap_or_default(tag.range.from), Unit) ELSE q) \o s

\* lines 276-278: starting index only
set_from(q, tag, s) ==
    resize(q, unwrap_or_default(tag.range.from), Unit) \o s

\* the bounded branch cutting the sequence at `from` before it validates
\* the value
set_existing_cut_first(m, tag, value, checks) ==
    LET val == m[tag.id].v
        put(q) == Outcome([m EXCEPT ![tag.id] = Present(SeqV(q))], Ok(Unit))
        cut == [m EXCEPT ![tag.id] =
                   Present(SeqV(resize(val.s, unwrap_or_default(tag.range.from), Unit)))]
    IN  IF val.k = "Seq"
        THEN IF range_len_overflows(tag) /\ checks THEN Outcome(m, Panic)
             ELSE IF range_len(tag).some
                  THEN IF range_len(tag).v = 1
                       THEN put(set_single(val.s, tag, value))
                       ELSE IF value.k = "Seq"
                            THEN IF Len(value.s) # range_len(tag).v
                                 THEN Outcome(cut, Err("InvalidParams"))
                                 ELSE put(set_part(val.s, tag, value.s))
                            ELSE Outcome(cut, Err("InvalidParams"))
                  ELSE IF value.k = "Seq"
                       THEN put(set_from(val.s, tag, value.s))
                       ELSE Outcome(m, Err("InvalidParams"))
        ELSE Outcome(m, Err("InvalidParams"))

\* lines 243-284: setting existing array tag
set_existing(m, tag, value, checks) ==
    LET val == m[tag.id].v
        put(q) == Outcome([m EXCEPT ![tag.id] = Present(SeqV(q))], Ok(Unit))
    IN  IF val.k = "Seq"
        THEN IF range_len_overflows(tag) /\ checks THEN Outcome(m, Panic)
             ELSE IF range_len(tag).some
                  THEN IF range_len(tag).v = 1
                       THEN put(set_single(val.s, tag, value))
                       ELSE IF value.k = "Seq"
                            THEN IF Len(value.s) # range_len(tag).v
                                 THEN Outcome(m, Err("InvalidParams"))
                                 ELSE put(set_part(val.s, tag, value.s))
                            ELSE Outcome(m, Err("InvalidParams"))
                  ELSE IF value.k = "Seq"
                       THEN put(set_from(val.s, tag, value.s))
                       ELSE Outcome(m, Err("InvalidParams"))
        ELSE Outcome(m, Err("InvalidParams"))

\* the no-entry branch without the length test on a sequence value
set_new_unchecked(m, tag, value, checks) ==
    LET put(q) == Outcome([m EXCEPT ![tag.id] = Present(SeqV(q))], Ok(Unit))
        from == unwrap_or_default(tag.range.from)
    IN  IF range_len_overflows(tag) /\ checks THEN Outcome(m, Panic)
        ELSE IF value.k = "Seq"
             THEN put(resize(<<>>, from, Unit) \o value.s)
             ELSE IF range_len(tag).some /\ range_len(tag).v = 1
                  THEN put([resize(<<>>, from + 1, Unit) EXCEPT ![from + 1] = value])
                  ELSE Outcome(m, Err("InvalidParams"))

\* lines 285-309: no entry for tag.id
set_new(m, tag, value, checks) ==
    LET put(q) == Outcome([m EXCEPT ![tag.id] = Present(SeqV(q))], Ok(Unit))
        from == unwrap_or_default(tag.range.from)
    IN  IF range_len_overflows(tag) /\ checks THEN Outcome(m, Panic)
        ELSE IF value.k = "Seq"
             THEN IF range_len(tag).some /\ range_len(tag).v # Len(value.s)
                  THEN Outcome(m, Err("InvalidParams"))
                  ELSE put(resize(<<>>, from, Unit) \o value.s)
             ELSE IF range_len(tag).some
                  THEN IF range_len(tag).v = 1
                       THEN put([resize(<<>>, from + 1, Unit) EXCEPT ![from + 1] = value])
                       ELSE Outcome(m, Err("InvalidParams"))
                  ELSE Outcome(m, Err("InvalidParams"))

\* set whose range-less insert replaces the whole map
set_replacing_map(m, tag, value, checks) ==
    IF has_range(tag)
    THEN IF m[tag.id].some
         THEN set_existing(m, tag, value, checks)
         ELSE set_new(m, tag, value, checks)
    ELSE Outcome([id \in DOMAIN m |-> IF id = tag.id THEN Present(value) ELSE Absent],
                 Ok(Unit))

set(m, tag, value, checks) ==
    IF has_range(tag)
    THEN IF m[tag.id].some
         THEN set_existing(m, tag, value, checks)
         ELSE set_new(m, tag, value, checks)
    ELSE Outcome([m EXCEPT ![tag.id] = Present(value)], Ok(Unit))

(* ------------------------- inputs of the runs ------------------------- *)
Ids == {"x", "y"}
\* set and get never look inside a value beyond the Seq test, so one scalar,
\* the sequences 1, 2, .. k (every element tells its position) and the
\* sequences 9, 9, .. 9 (told apart from the former) stand for all values
Scalar == IntV(9)
Run(k) == [i \in 1..k |-> IntV(i)]
Nines(k) == [i \in 1..k |-> Scalar]

Values ==
    {Unit, Scalar} \cup {SeqV(Run(k)) : k \in 0..MaxLen}
                   \cup {SeqV(Nines(k)) : k \in 1..MaxLen}

Bounds == {None} \cup {Some(i) : i \in 0..MaxIdx}
\* every Tag of Tag::new(id, Range::new(from, to))
Tags == {Tag(id, Range(f, t)) : id \in Ids, f \in Bounds, t \in Bounds}

\* every tag text of exactly n characters
Texts(n) == [1..n -> Chars]

(* ------------------------------- state -------------------------------- *)
VARIABLES
    tags,             \* TagMap.tags: the entry of every TagId
    overflow_checks,  \* the build: TRUE = arithmetic overflow panics
    op,               \* the last TagMap call: "none", "set", "get", "delete"
    tag,              \* its Tag
    value,            \* its value (set)
    pre,              \* TagMap.tags before it
    res,              \* what it returned
    nops,             \* calls made so far
    text,             \* the tag text given to Tag::from_str
    pc,               \* how far the text went: "text", "parsed", "shown", "reparsed"
    parsed,           \* what from_str returned for text
    shown,            \* what Display wrote for the parsed Tag
    reparsed          \* what from_str returned for shown

mapvars == <<tags, overflow_checks, op, tag, value, pre, res, nops>>
textvars == <<text, pc, parsed, shown, reparsed>>
vars == <<mapvars, textvars>>

EmptyMap == [id \in Ids |-> Absent]

NoText ==
    /\ text = <<>>
    /\ pc = "text"
    /\ parsed = ParseErr("none")
    /\ shown = <<>>
    /\ reparsed = ParseErr("none")

NoCalls ==
    /\ tags = EmptyMap
    /\ op = "none"
    /\ tag = Tag0("x")
    /\ value = Unit
    /\ pre = EmptyMap
    /\ res = Ok(Unit)
    /\ nops = 0

Init ==
    /\ NoCalls
    /\ overflow_checks \in BOOLEAN
    /\ NoText

\* the caller holds no unread result; a panic ends the run
CanCall == op = "none" /\ nops < MaxOps

Called(name, t, v, out) ==
    /\ op' = name
    /\ tag' = t
    /\ value' = v
    /\ pre' = tags
    /\ tags' = out.tags
    /\ res' = out.res
    /\ nops' = nops + 1
    /\ UNCHANGED <<overflow_checks, textvars>>

Set ==
    /\ CanCall
    /\ \E t \in Tags, v \in Values : Called("set", t, v, set(tags, t, v, overflow_checks))

Get ==
    /\ CanCall
    /\ \E t \in Tags : Called("get", t, Unit, get_call(tags, t, overflow_checks))

Delete ==
    /\ CanCall
    /\ \E t \in Tags : Called("delete", t, Unit, delete(tags, t))

\* the caller drops the EResult it was handed; the map stays as the call
\* left it and is ready for the next call
Return ==
    /\ op # "none" /\ res.kind # "Panic"
    /\ op' = "none"
    /\ tag' = Tag0("x")
    /\ value' = Unit
    /\ pre' = EmptyMap
    /\ res' = Ok(Unit)
    /\ UNCHANGED <<tags, overflow_checks, nops, textvars>>

Next == Set \/ Get \/ Delete \/ Return

Spec == Init /\ [][Next]_vars

(* ------------------- parsing and formatting a text ------------------- *)
\* a Tag returned by from_str has from <= to, so range_len inside Display
\* cannot overflow and the build makes no difference here
InitText ==
    /\ NoCalls
    /\ overflow_checks = TRUE
    /\ \E n \in 0..MaxText : text \in Texts(n)
    /\ pc = "text"
    /\ parsed = ParseErr("none")
    /\ shown = <<>>
    /\ reparsed = ParseErr("none")

\* text.parse::<Tag>()
Parse ==
    /\ pc = "text"
    /\ parsed' = from_str(text)
    /\ pc' = "parsed"
    /\ UNCHANGED <<mapvars, text, shown, reparsed>>

\* tag.to_string()
Show ==
    /\ pc = "parsed" /\ parsed.kind = "Ok"
    /\ shown' = display(parsed.tag)
    /\ pc' = "shown"
    /\ UNCHANGED <<mapvars, text, parsed, reparsed>>

\* tag.to_string().parse::<Tag>()
Reparse ==
    /\ pc = "shown"
    /\ reparsed' = from_str(shown)
    /\ pc' = "reparsed"
    /\ UNCHANGED <<mapvars, text, parsed, shown>>

NextText == Parse \/ Show \/ Reparse

SpecText == InitText /\ [][NextText]_vars

TypeOK ==
    /\ op \in {"none", "set", "get", "delete"}
    /\ tag \in Tags
    /\ res.kind \in {"Ok", "InvalidParams", "InvalidData", "NotFound", "Panic"}
    /\ nops \in 0..MaxOps

(* ====================================================================== *)
(*                      properties of get / set / delete                  *)
(* ====================================================================== *)
\* the call just made, seen from the state it left
IsErr(r) == r.kind \in {"InvalidParams", "InvalidData", "NotFound"}
HadEntry == pre[tag.id].some
HadSeq == pre[tag.id].some /\ pre[tag.id].v.k = "Seq"
Old == pre[tag.id].v.s
From == unwrap_or_default(tag.range.from)
To == tag.range.to.v
\* a bounded range that respects from <= to, and its length
Bounded == tag.range.to.some /\ From <= To
N == To - From + 1
OpenEnded == tag.range.from.some /\ ~tag.range.to.some
Max(a, b) == IF a >= b THEN a ELSE b

\* C1: a set over a bounded range of n > 1 elements, given exactly n
\* elements, on a stored sequence old of length L leaves
\* head + value + tail: head is old[0..from) padded with Unit up to from,
\* tail is old[to+1..L); the final length is max(L, to+1).
C1_Case ==
    /\ op = "set" /\ HadSeq /\ Bounded /\ N > 1
    /\ value.k = "Seq" /\ Len(value.s) = N
C1_Head == [i \in 1..From |-> IF i <= Len(Old) THEN Old[i] ELSE Unit]
C1_Tail ==
    [i \in 1..(IF Len(Old) > To + 1 THEN Len(Old) - (To + 1) ELSE 0)
        |-> Old[To + 1 + i]]
C1_SpliceKeepsHeadAndTail ==
    C1_Case =>
        /\ res.kind = "Ok"
        /\ tags[tag.id] = Present(SeqV(C1_Head \o value.s \o C1_Tail))
        /\ Len(tags[tag.id].v.s) = Max(Len(Old), To + 1)
\* a splice in the middle: something before from and something after to
C1_Witness == C1_Case /\ From >= 1 /\ Len(Old) > To + 1

\* C2: when set or delete returns an error the whole map is what it was
\* before the call.
C2_ErrorLeavesMap ==
    (op \in {"set", "delete"} /\ IsErr(res)) => tags = pre
\* a bounded set on a stored sequence rejected for the value's length
C2_Witness ==
    /\ op = "set" /\ IsErr(res) /\ HadSeq /\ Len(Old) > 0
    /\ Bounded /\ N > 1 /\ value.k = "Seq"

\* C3: repeating an identical set leaves the map as the first set left it.
C3_SetIdempotent ==
    op = "set" => set(tags, tag, value, overflow_checks).tags = tags

\* C4: a get whose range has `to` (from <= to) on a stored sequence always
\* returns Ok: the element at from (Unit beyond the end) for a single
\* index, and otherwise exactly to - from + 1 elements, each the stored
\* element or Unit beyond the end.
C4_Case == op = "get" /\ HadSeq /\ Bounded
C4_BoundedGetPads ==
    C4_Case =>
        /\ res.kind = "Ok"
        /\ N = 1 => res.val = (IF From < Len(Old) THEN Old[From + 1] ELSE Unit)
        /\ N > 1 => res.val =
              SeqV([i \in 1..N |-> IF From + i - 1 < Len(Old)
                                   THEN Old[From + i] ELSE Unit])
\* a multi-element read that starts inside the sequence and ends beyond it
C4_Witness ==
    C4_Case /\ N > 1 /\ From < Len(Old) /\ To >= Len(Old) /\ res.kind = "Ok"

\* C5: a get with an open-ended range id[N-] on a stored sequence of
\* length L returns Ok with the elements N .. L-1 for every N and L,
\* N > L included.
C5_OpenGetAlwaysOk ==
    (op = "get" /\ HadSeq /\ OpenEnded) =>
        /\ res.kind = "Ok"
        /\ res.val = SeqV(SubSeq(Old, From + 1, Len(Old)))

\* C8: get fails exactly with NotFound when the id has no entry and with
\* InvalidData when the entry exists, the tag has a range and the value is
\* not a sequence; in every other case it returns Ok, and with a range-less
\* tag a copy of the stored value.
C8_GetFailsInTwoCases ==
    op = "get" =>
        /\ res.kind = "NotFound" <=> ~HadEntry
        /\ res.kind = "InvalidData" <=> (HadEntry /\ has_range(tag) /\ ~HadSeq)
        /\ res.kind \in {"NotFound", "InvalidData", "Ok"}
        /\ (HadEntry /\ ~has_range(tag)) => res = Ok(pre[tag.id].v)

\* C9: set fails, always with InvalidParams, exactly in the five listed
\* cases of a ranged tag and succeeds in all others; a range-less set
\* never fails and overwrites.
C9_Length == tag.range.to.v - From + 1
C9_FailCase ==
    /\ has_range(tag)
    /\ \/ HadEntry /\ ~HadSeq
       \/ HadSeq /\ tag.range.to.some /\ C9_Length > 1
                 /\ (value.k # "Seq" \/ Len(value.s) # C9_Length)
       \/ HadSeq /\ ~tag.range.to.some /\ value.k # "Seq"
       \/ ~HadEntry /\ value.k = "Seq"
                    /\ tag.range.to.some /\ C9_Length # Len(value.s)
       \/ ~HadEntry /\ value.k # "Seq"
                    /\ ~(tag.range.to.some /\ C9_Length = 1)
C9_SetFailsInFiveCases ==
    op = "set" =>
        /\ res.kind = (IF C9_FailCase THEN "InvalidParams" ELSE "Ok")
        /\ ~has_range(tag) => tags[tag.id] = Present(value)

\* C10: delete with a tag that has any bound fails with InvalidParams in
\* every map state and leaves the map unchanged.
C10_RangedDeleteRejected ==
    (op = "delete" /\ has_range(tag)) =>
        res.kind = "InvalidParams" /\ tags = pre
\* a ranged delete on an id that holds a sequence
C10_Witness ==
    op = "delete" /\ has_range(tag) /\ HadSeq /\ res.kind = "InvalidParams"

(* ====================================================================== *)
(*                     properties of parse and format                     *)
(* ====================================================================== *)
\* C6: for every text from_str accepts, formatting the Tag and parsing the
\* output again succeeds and yields a Tag equal to the first one.
C6_FormatInvertsParse ==
    pc = "reparsed" => (reparsed.kind = "Ok" /\ reparsed.tag = parsed.tag)

\* the tested shapes: a bracket-free identifier alone or followed by [N],
\* [-N] with N >= 1, [N-], or [N-M] with N < M, the numbers in decimal
\* without sign or leading zeros
IsDecimal(s) ==
    /\ Len(s) >= 1
    /\ \A i \in 1..Len(s) : s[i] \in {"0", "1"}
    /\ Len(s) > 1 => s[1] # "0"
RECURSIVE DecimalValue(_)
DecimalValue(s) ==
    IF Len(s) = 0 THEN 0
    ELSE 10 * DecimalValue(SubSeq(s, 1, Len(s) - 1))
         + (IF s[Len(s)] = "1" THEN 1 ELSE 0)
BracketFree(s) == \A i \in 1..Len(s) : s[i] \notin {"[", "]"}
IsTestedInterior(s) ==
    \/ IsDecimal(s)
    \/ \E d \in 1..Len(s) :
          /\ s[d] = "-"
          /\ LET l == SubSeq(s, 1, d - 1)
                 r == SubSeq(s, d + 1, Len(s))
             IN  \/ l = <<>> /\ IsDecimal(r) /\ DecimalValue(r) >= 1
                 \/ IsDecimal(l) /\ r = <<>>
                 \/ IsDecimal(l) /\ IsDecimal(r)
                                 /\ DecimalValue(l) < DecimalValue(r)
IsTestedShape(s) ==
    \/ BracketFree(s)
    \/ \E p \in 1..Len(s) :
          /\ BracketFree(SubSeq(s, 1, p - 1))
          /\ s[p] = "[" /\ s[Len(s)] = "]" /\ p < Len(s)
          /\ IsTestedInterior(SubSeq(s, p + 1, Len(s) - 1))

\* C7: parsing then formatting reproduces the exact original text for
\* every text in one of the tested shapes.
C7_ParseThenFormatIsText ==
    IsTestedShape(text) =>
        /\ pc # "text" => parsed.kind = "Ok"
        /\ pc \in {"shown", "reparsed"} => shown = text
\* a text id[N-M] with N < M, parsed and formatted
C7_Witness ==
    /\ pc = "shown" /\ IsTestedShape(text) /\ Len(parsed.tag.id) > 0
    /\ parsed.tag.range.from.some /\ parsed.tag.range.to.some
    /\ parsed.tag.range.from.v < parsed.tag.range.to.v

\* C12: from_str returns InvalidParams and no Tag when the text ends with
\* ']' without a '[' before it, and when the bracket interior gives both
\* bounds with from > to; a text that does not end with ']' always parses
\* as a bare identifier with an empty range; hence every Tag the parser
\* returns with both bounds has from <= to.
EndsWithBracket(s) == Len(s) > 0 /\ s[Len(s)] = "]"
HasOpenBracket(s) == \E i \in 1..(Len(s) - 1) : s[i] = "["
IsNumber(s) == Len(s) >= 1 /\ \A i \in 1..Len(s) : s[i] \in {"0", "1"}
\* the text is id[N-M] with N > M
IsReversedRange(s) ==
    /\ EndsWithBracket(s)
    /\ \E p \in 1..(Len(s) - 1), d \in 1..(Len(s) - 1) :
          /\ p < d
          /\ s[p] = "["
          /\ s[d] = "-"
          /\ IsNumber(SubSeq(s, p + 1, d - 1))
          /\ IsNumber(SubSeq(s, d + 1, Len(s) - 1))
          /\ DecimalValue(SubSeq(s, p + 1, d - 1))
                > DecimalValue(SubSeq(s, d + 1, Len(s) - 1))
C12_ParserRejects ==
    pc # "text" =>
        /\ (EndsWithBracket(text) /\ ~HasOpenBracket(text))
              => parsed.kind = "InvalidParams"
        /\ IsReversedRange(text) => parsed.kind = "InvalidParams"
        /\ ~EndsWithBracket(text) => parsed = Parsed(Tag0(text))
        /\ (parsed.kind = "Ok" /\ parsed.tag.range.from.some
                               /\ parsed.tag.range.to.some)
              => parsed.tag.range.from.v <= parsed.tag.range.to.v
\* a text id[N-M] with N > M went through the parser
C12_Witness ==
    /\ pc = "parsed" /\ IsReversedRange(text) /\ text[1] = "a"
    /\ parsed.kind = "InvalidParams"

(* ====================================================================== *)
(*                  further properties of get / set / delete              *)
(* ====================================================================== *)
Single == tag.range.to.some /\ To = From
New == tags[tag.id].v.s
Units(n) == [i \in 1..n |-> Unit]
\* a Tag the parser can return: from <= to when both bounds are present
ParserTag == (tag.range.from.some /\ tag.range.to.some) => From <= To

\* C11: delete with a range-less tag always returns Ok; afterwards the id
\* has no entry and a get on it fails with NotFound; deleting it again, or
\* deleting an id that was never present, returns Ok and leaves the map
\* unchanged.
C11_Case == op = "delete" /\ ~has_range(tag)
C11_DeleteRemovesEntry ==
    C11_Case =>
        /\ res.kind = "Ok"
        /\ ~tags[tag.id].some
        /\ get_call(tags, tag, overflow_checks) = Outcome(tags, Err("NotFound"))
        /\ delete(tags, tag) = Outcome(tags, Ok(Unit))
        /\ ~HadEntry => tags = pre
\* the delete of an id that held a sequence
C11_Witness == C11_Case /\ HadSeq /\ res.kind = "Ok"

\* C13: a set with a single-index tag (index i) on a stored sequence old of
\* length L succeeds for every value and leaves a sequence of length
\* max(L, i+1) with the value at i, old[j] at every other j < L and Unit at
\* L <= j < i; on an id without entry and a non-sequence value it inserts
\* i Units followed by the value.
C13_OnSeq == op = "set" /\ HadSeq /\ Single
C13_OnNone == op = "set" /\ ~HadEntry /\ Single /\ value.k # "Seq"
C13_SingleIndexSet ==
    /\ C13_OnSeq =>
          /\ res.kind = "Ok"
          /\ tags[tag.id].some /\ tags[tag.id].v.k = "Seq"
          /\ Len(New) = Max(Len(Old), From + 1)
          /\ New[From + 1] = value
          /\ \A j \in 0..(Len(New) - 1) :
                j # From => New[j + 1] = (IF j < Len(Old) THEN Old[j + 1] ELSE Unit)
    /\ C13_OnNone =>
          /\ res.kind = "Ok"
          /\ tags[tag.id] = Present(SeqV(Units(From) \o <<value>>))
\* a write beyond the end of a non-empty sequence, leaving a gap
C13_Witness == C13_OnSeq /\ Len(Old) > 0 /\ Len(Old) < From /\ res.kind = "Ok"

\* C14: an open-ended set id[N-] with a sequence value s on a stored
\* sequence old leaves the first N elements of old (padded with Unit up to
\* N) followed by s: length N + len(s), everything of old from N on is
\* discarded even when the sequence gets shorter.
C14_Case == op = "set" /\ HadSeq /\ OpenEnded /\ value.k = "Seq"
C14_OpenSetReplacesSuffix ==
    C14_Case =>
        /\ res.kind = "Ok"
        /\ tags[tag.id] =
              Present(SeqV([i \in 1..From |-> IF i <= Len(Old) THEN Old[i] ELSE Unit]
                           \o value.s))
        /\ Len(New) = From + Len(value.s)
\* the sequence got shorter and kept a head
C14_Witness == C14_Case /\ From >= 1 /\ Len(New) < Len(Old)

\* C15: a ranged set of a sequence value s on an id without entry inserts
\* `from` Units followed by s (length from + len(s)); when the range
\* length is defined the call succeeds only if it equals len(s), length 1
\* included.
C15_Case == op = "set" /\ has_range(tag) /\ ~HadEntry /\ value.k = "Seq"
C15_RangedSetOnNewId ==
    C15_Case =>
        /\ res.kind = "Ok" =>
              /\ tags[tag.id] = Present(SeqV(Units(From) \o value.s))
              /\ Len(New) = From + Len(value.s)
              /\ tag.range.to.some => To - From + 1 = Len(value.s)
        /\ ~tag.range.to.some => res.kind = "Ok"
        /\ (Bounded /\ N = Len(value.s)) => res.kind = "Ok"
\* a single-index tag with a one-element sequence, stored at index from
C15_Witness ==
    C15_Case /\ Single /\ From >= 1 /\ Len(value.s) = 1 /\ res.kind = "Ok"

\* C16: every Range carried by a Tag built through the public API has
\* from <= to when both bounds are present, so the range length is a
\* defined value >= 1 whenever `to` is present.
C16_RangeInvariant ==
    op # "none" =>
        /\ (tag.range.from.some /\ tag.range.to.some)
              => tag.range.from.v <= tag.range.to.v
        /\ tag.range.to.some =>
              (~range_len_overflows(tag) /\ range_len(tag).v >= 1)

\* C17: if set(t, v) with a parser-produced Tag returns Ok, a get(t) right
\* after it returns Ok(v).
C17_ReadYourWrite ==
    (op = "set" /\ ParserTag /\ res.kind = "Ok") =>
        get_call(tags, tag, overflow_checks).res = Ok(value)

\* C18: after set or delete, successful or not, every entry under another
\* TagId is what it was, and no entry under another TagId is created.
C18_OtherKeysUntouched ==
    op \in {"set", "delete"} =>
        \A id \in Ids \ {tag.id} : tags[id] = pre[id]
\* a successful range-less set while another id holds a sequence
C18_Witness ==
    /\ op = "set" /\ ~has_range(tag) /\ res.kind = "Ok"
    /\ \E id \in Ids \ {tag.id} : pre[id].some /\ pre[id].v.k = "Seq"

\* C19: get leaves the map exactly as it was, whatever it returns; an
\* out-of-range read does not grow the stored sequence.
C19_GetReadsOnly == op = "get" => tags = pre
\* a padded read beyond the end of the stored sequence
C19_Witness ==
    /\ op = "get" /\ HadSeq /\ Bounded /\ To >= Len(Old) /\ Len(Old) > 0
    /\ res.kind = "Ok"
====
